---------------------------- MODULE Spec2Model ----------------------------
(***************************************************************************)
(* Model of packages/hurl/src/output/raw.rs: write_last_body.               *)
(*                                                                         *)
(* A byte is a natural number, a byte string or a text is a sequence of     *)
(* bytes.  The run result, the flags and the destination are the inputs of  *)
(* one invocation; they are chosen in Init and never change.  The           *)
(* invocation advances through the statements of write_last_body, pc        *)
(* naming the statement that runs next.                                     *)
(***************************************************************************)
EXTENDS Naturals, Sequences, FiniteSets

VARIABLES
    hurl_result,       \* parameter: the run result, [entries: Seq(EntryResult)]
    include_headers,   \* parameter
    color,             \* parameter
    filename_out,      \* parameter: Option<&Output>
    stdout,            \* parameter: the bytes held by the caller's Stdout
    file,              \* the content of the named output file, if it exists
    pc,                \* "navigate", "headers", "body", "route", "done"
    last_entry,        \* local of write_last_body (Option)
    call,              \* local of write_last_body (Option)
    output,            \* local of write_last_body: the rendering buffer
    uncompress_calls,  \* how many times uncompress_body was called
    writes,            \* the calls made to Output::write, in order
    result             \* the value write_last_body returned (Option<Result>)

vars == << hurl_result, include_headers, color, filename_out, stdout, file, pc,
           last_entry, call, output, uncompress_calls, writes, result >>

-----------------------------------------------------------------------------
(* Bounds of the input space.                                               *)

\* the longest entry sequence of a run result
MaxEntries == 2

\* the longest call sequence of an entry
MaxCalls == 2

-----------------------------------------------------------------------------
(* Option and Result values.                                                *)

None == [some |-> FALSE]

Some(x) == [some |-> TRUE, value |-> x]

Ok(v) == [ok |-> TRUE, value |-> v]

Err(e) == [ok |-> FALSE, error |-> e]

Unit == "()"

\* slice::last
last(s) == IF Len(s) = 0 THEN None ELSE Some(s[Len(s)])

-----------------------------------------------------------------------------
(* Texts used by the collaborators of write_last_body.                      *)

\* '\n'
NL == 10

\* "content-encoding"
ContentEncodingName ==
    << 99, 111, 110, 116, 101, 110, 116, 45, 101, 110, 99, 111, 100, 105, 110, 103 >>

\* "gzip"
GzipName == << 103, 122, 105, 112 >>

\* "identity"
IdentityName == << 105, 100, 101, 110, 116, 105, 116, 121 >>

\* "zz", a content encoding no codec knows
UnknownName == << 122, 122 >>

\* "x-foo", "x-bar" and the values "xxx", "yyy0", "yyy1" of the test fixture
XFoo == << 120, 45, 102, 111, 111 >>

XBar == << 120, 45, 98, 97, 114 >>

Xxx == << 120, 120, 120 >>

Yyy0 == << 121, 121, 121, 48 >>

Yyy1 == << 121, 121, 121, 49 >>

Header(name, value) == [name |-> name, value |-> value]

\* HttpVersion as Display prints it
VersionText(version) ==
    CASE version = "Http10" -> << 72, 84, 84, 80, 47, 49, 46, 48 >>
      [] version = "Http11" -> << 72, 84, 84, 80, 47, 49, 46, 49 >>
      [] version = "Http2"  -> << 72, 84, 84, 80, 47, 50 >>
      [] version = "Http3"  -> << 72, 84, 84, 80, 47, 51 >>

\* a u32 as Display prints it: decimal digits, most significant first
RECURSIVE Decimal(_)
Decimal(n) ==
    IF n < 10 THEN << 48 + n >> ELSE Decimal(n \div 10) \o << 48 + (n % 10) >>

\* a text wrapped in the escape sequences of a terminal style
Styled(text, style) == << 27, 91 >> \o style \o << 109 >> \o text \o << 27, 91, 48, 109 >>

\* Response::get_status_line_headers: the status line, then one line per header
RECURSIVE HeaderLines(_, _)
HeaderLines(headers, colored) ==
    IF headers = << >> THEN << >>
    ELSE LET h == Head(headers)
             name == IF colored THEN Styled(h.name, << 49, 59, 51, 54 >>) ELSE h.name
         IN  name \o << 58, 32 >> \o h.value \o << NL >> \o HeaderLines(Tail(headers), colored)

get_status_line_headers(response, colored) ==
    LET line == VersionText(response.version) \o << 32 >> \o Decimal(response.status)
        status_line == IF colored THEN Styled(line, << 49, 59, 51, 50 >>) ELSE line
    IN  status_line \o << NL >> \o HeaderLines(response.headers, colored)

\* String::into_bytes: the UTF-8 bytes of the text, which is how a text is held here
into_bytes(text) == text

-----------------------------------------------------------------------------
(* Content decoding, as Response::uncompress_body performs it.              *)

\* the values of the content-encoding headers, in order
RECURSIVE content_encoding(_)
content_encoding(headers) ==
    IF headers = << >> THEN << >>
    ELSE (IF Head(headers).name = ContentEncodingName THEN << Head(headers).value >> ELSE << >>)
         \o content_encoding(Tail(headers))

\* one codec applied to data: a gzip stream starts with the magic byte 0x1f
decode(encoding, data) ==
    CASE encoding = IdentityName -> Ok(data)
      [] encoding = GzipName ->
            IF Len(data) > 0 /\ data[1] = 31
            THEN Ok(Tail(data))
            ELSE Err([kind |-> "CouldNotUncompressResponse", encoding |-> encoding])
      [] OTHER -> Err([kind |-> "UnsupportedContentEncoding", encoding |-> encoding])

RECURSIVE decode_all(_, _)
decode_all(encodings, data) ==
    IF encodings = << >> THEN Ok(data)
    ELSE LET r == decode(Head(encodings), data)
         IN  IF r.ok THEN decode_all(Tail(encodings), r.value) ELSE r

uncompress_body(response) == decode_all(content_encoding(response.headers), response.body)

-----------------------------------------------------------------------------
(* Errors.                                                                  *)

Pos(line, column) == [line |-> line, column |-> column]

SourceInfo(start, end) == [start |-> start, end |-> end]

\* From<HttpError> for the kind of a runner::Error
HttpErrorInto(e) == [kind |-> "Http", cause |-> e]

\* runner::Error::new
RunnerError(source_info, inner, assert) ==
    [source_info |-> source_info, inner |-> inner, assert |-> assert]

\* From<runner::Error> for output::Error
RunnerErrorInto(error) == [type |-> "output::Error", from |-> error]

\* the same error flagged as an assert error (a faulty variant of uncompress_error)
uncompress_error_of_assert(e) ==
    RunnerErrorInto(RunnerError(SourceInfo(Pos(0, 0), Pos(0, 0)), HttpErrorInto(e), TRUE))

\* lines 60-62: the error write_last_body returns for the decompression error e
uncompress_error(e) ==
    RunnerErrorInto(RunnerError(SourceInfo(Pos(0, 0), Pos(0, 0)), HttpErrorInto(e), FALSE))

-----------------------------------------------------------------------------
(* The sink.                                                                *)

OutputStdout == [kind |-> "Stdout"]

OutputFile(filename) == [kind |-> "File", filename |-> filename]

\* what a write to the sink can meet
IoOutcomes == { "ok", "BrokenPipe" }

\* Output::write(bytes, stdout, None): the new stream, the new file and the result
OutputWrite(self, bytes, stream, named, io) ==
    IF io # "ok"
    THEN [stdout |-> stream, file |-> named,
          result |-> Err([type |-> "output::Error", from |-> [kind |-> "Io", cause |-> io]])]
    ELSE IF self.kind = "Stdout"
         THEN [stdout |-> stream \o bytes, file |-> named, result |-> Ok(Unit)]
         ELSE [stdout |-> stream, file |-> Some(bytes), result |-> Ok(Unit)]

-----------------------------------------------------------------------------
(* The run results an invocation is given.                                  *)

Response(version, status, headers, body) ==
    [version |-> version, status |-> status, headers |-> headers, body |-> body]

\* Response::default()
RespDefault == Response("Http10", 200, << >>, << >>)

\* the response of the test fixture, shortened: a repeated header name
RespHello ==
    Response("Http3", 204,
             << Header(XFoo, Xxx), Header(XBar, Yyy0), Header(XBar, Yyy1) >>, << 104, 105 >>)

\* the same headers in another order
RespSwapped ==
    Response("Http2", 204,
             << Header(XBar, Yyy1), Header(XFoo, Xxx), Header(XBar, Yyy0) >>, << 104, 105 >>)

\* a gzip body that decodes to "hi"
RespGzip ==
    Response("Http11", 200, << Header(ContentEncodingName, GzipName) >>, << 31, 104, 105 >>)

\* a gzip body that decodes to nothing
RespGzipEmpty ==
    Response("Http11", 200, << Header(ContentEncodingName, GzipName) >>, << 31 >>)

\* a body announced as gzip that is no gzip stream
RespBadGzip ==
    Response("Http11", 200,
             << Header(XFoo, Xxx), Header(ContentEncodingName, GzipName) >>, << 104, 105 >>)

\* a content encoding without a codec
RespUnknownEncoding ==
    Response("Http11", 404, << Header(ContentEncodingName, UnknownName) >>, << 31, 104 >>)

Responses ==
    { RespDefault, RespHello, RespSwapped, RespGzip, RespGzipEmpty, RespBadGzip,
      RespUnknownEncoding }

\* the responses of the calls that precede the last call of an entry
EarlierResponses == { RespHello, RespBadGzip }

SeqsUpTo(S, n) == UNION { [1..k -> S] : k \in 0..n }

\* the call sequences of an entry: a Call is held as its response, the only
\* field write_last_body reads
CallSeqs ==
    { << >> } \cup
    { pre \o << r >> : pre \in SeqsUpTo(EarlierResponses, MaxCalls - 1), r \in Responses }

\* what distinguishes two entries: the calls and the compressed flag
EntryShapes == [calls : CallSeqs, compressed : BOOLEAN]

\* the entries that precede the last entry of a run result
EarlierShapes ==
    { [calls |-> << >>, compressed |-> FALSE],
      [calls |-> << RespHello >>, compressed |-> FALSE],
      [calls |-> << RespBadGzip >>, compressed |-> TRUE] }

\* EntryResult number i of a run, with the source position of its entry
EntryResult(i, shape) ==
    [entry_index |-> i,
     source_info |-> SourceInfo(Pos(2 * i, 1), Pos(2 * i + 1, 1)),
     calls |-> shape.calls,
     compressed |-> shape.compressed]

HurlResult(shapes) == [entries |-> [i \in 1..Len(shapes) |-> EntryResult(i, shapes[i])]]

HurlResults ==
    { HurlResult(<< >>) } \cup
    { HurlResult(pre \o << e >>) :
        pre \in SeqsUpTo(EarlierShapes, MaxEntries - 1), e \in EntryShapes }

Destinations == { None, Some(OutputStdout), Some(OutputFile("out.bin")) }

-----------------------------------------------------------------------------
(* write_last_body, statement by statement.                                 *)

\* the last entry that made a call (a faulty variant of last_entry_of)
RECURSIVE last_entry_with_calls(_)
last_entry_with_calls(hr) ==
    LET n == Len(hr.entries)
    IN  IF n = 0 THEN None
        ELSE IF hr.entries[n].calls # << >> THEN Some(hr.entries[n])
        ELSE last_entry_with_calls([entries |-> SubSeq(hr.entries, 1, n - 1)])

\* line 37: hurl_result.entries.last()
last_entry_of(hr) == last(hr.entries)

\* the first call of the entry (a faulty variant of last_call_of)
first_call_of(entry) == IF entry.calls = << >> THEN None ELSE Some(Head(entry.calls))

\* line 40: last_entry.calls.last()
last_call_of(entry) == last(entry.calls)

\* the header block without its closing empty line (a faulty variant of header_block)
header_block_unterminated(response, include, colored) ==
    IF include THEN into_bytes(get_status_line_headers(response, colored)) ELSE << >>

\* the header block whatever the flag (a faulty variant of header_block)
header_block_always(response, include, colored) ==
    into_bytes(get_status_line_headers(response, colored) \o << NL >>)

\* lines 48-52: the bytes appended to output before the body
header_block(response, include, colored) ==
    IF include
    THEN into_bytes(get_status_line_headers(response, colored) \o << NL >>)
    ELSE << >>

\* decoding whenever the response announces an encoding (a faulty variant of body_bytes)
body_bytes_speculative(entry, response) ==
    IF entry.compressed \/ content_encoding(response.headers) # << >>
    THEN LET r == uncompress_body(response)
         IN  [attempts |-> 1, bytes |-> IF r.ok THEN r ELSE Err(uncompress_error(r.error))]
    ELSE [attempts |-> 0, bytes |-> Ok(response.body)]

\* falling back to the stored body when decoding fails (a faulty variant of body_bytes)
body_bytes_lenient(entry, response) ==
    IF entry.compressed
    THEN LET r == uncompress_body(response)
         IN  [attempts |-> 1, bytes |-> IF r.ok THEN r ELSE Ok(response.body)]
    ELSE [attempts |-> 0, bytes |-> Ok(response.body)]

\* lines 53-69: the body bytes appended to output, or the error returned, and
\* the number of calls of uncompress_body made to get them
body_bytes(entry, response) ==
    IF entry.compressed
    THEN LET r == uncompress_body(response)
         IN  [attempts |-> 1, bytes |-> IF r.ok THEN r ELSE Err(uncompress_error(r.error))]
    ELSE [attempts |-> 0, bytes |-> Ok(response.body)]

\* the default stream whatever the caller asked for (a faulty variant of destination)
destination_default(out) == OutputStdout

\* lines 70-73: the Output whose write is called
destination(out) == IF out.some THEN out.value ELSE OutputStdout

Init ==
    /\ hurl_result \in HurlResults
    /\ include_headers \in BOOLEAN
    /\ color \in BOOLEAN
    /\ filename_out \in Destinations
    /\ stdout = << >>
    /\ file \in { None, Some(<< 111 >>) }
    /\ pc = "navigate"
    /\ last_entry = None
    /\ call = None
    /\ output = << >>
    /\ uncompress_calls = 0
    /\ writes = << >>
    /\ result = None

\* lines 37-44
Navigate ==
    /\ pc = "navigate"
    /\ LET e == last_entry_of(hurl_result)
           c == IF e.some THEN last_call_of(e.value) ELSE None
       IN  /\ last_entry' = e
           /\ call' = c
           /\ IF e.some /\ c.some
              THEN pc' = "headers" /\ result' = result
              ELSE pc' = "done" /\ result' = Some(Ok(Unit))
    /\ output' = << >>
    /\ UNCHANGED << hurl_result, include_headers, color, filename_out, stdout, file,
                    uncompress_calls, writes >>

\* lines 48-52
RenderHeaders ==
    /\ pc = "headers"
    /\ output' = output \o header_block(call.value, include_headers, color)
    /\ pc' = "body"
    /\ UNCHANGED << hurl_result, include_headers, color, filename_out, stdout, file,
                    last_entry, call, uncompress_calls, writes, result >>

\* lines 53-69
RenderBody ==
    /\ pc = "body"
    /\ LET b == body_bytes(last_entry.value, call.value)
       IN  /\ uncompress_calls' = uncompress_calls + b.attempts
           /\ IF b.bytes.ok
              THEN output' = output \o b.bytes.value /\ pc' = "route" /\ result' = result
              ELSE output' = output /\ pc' = "done" /\ result' = Some(Err(b.bytes.error))
    /\ UNCHANGED << hurl_result, include_headers, color, filename_out, stdout, file,
                    last_entry, call, writes >>

\* one call out.write(&output, stdout, None) and what it returned
WriteCall(out, bytes, returned) ==
    [self |-> out, bytes |-> bytes, stdout |-> "stdout", context_dir |-> None,
     returned |-> returned]

\* no write of an empty buffer (a faulty variant of Route)
Route_skip_empty ==
    /\ pc = "route"
    /\ \E io \in IoOutcomes :
        LET out == destination(filename_out)
            w == OutputWrite(out, output, stdout, file, io)
        IN  IF output = << >>
            THEN /\ UNCHANGED << writes, stdout, file >>
                 /\ result' = Some(Ok(Unit))
            ELSE /\ writes' = Append(writes, WriteCall(out, output, w.result))
                 /\ stdout' = w.stdout
                 /\ file' = w.file
                 /\ result' = Some(IF w.result.ok THEN Ok(Unit) ELSE Err(w.result.error))
    /\ pc' = "done"
    /\ UNCHANGED << hurl_result, include_headers, color, filename_out, last_entry, call,
                    output, uncompress_calls >>

\* the result of the write dropped (a faulty variant of Route)
Route_ignore_error ==
    /\ pc = "route"
    /\ \E io \in IoOutcomes :
        LET out == destination(filename_out)
            w == OutputWrite(out, output, stdout, file, io)
        IN  /\ writes' = Append(writes, WriteCall(out, output, w.result))
            /\ stdout' = w.stdout
            /\ file' = w.file
            /\ result' = Some(Ok(Unit))
    /\ pc' = "done"
    /\ UNCHANGED << hurl_result, include_headers, color, filename_out, last_entry, call,
                    output, uncompress_calls >>

\* lines 70-74: the write, its error returned by `?`, else Ok(())
Route ==
    /\ pc = "route"
    /\ \E io \in IoOutcomes :
        LET out == destination(filename_out)
            w == OutputWrite(out, output, stdout, file, io)
        IN  /\ writes' = Append(writes, WriteCall(out, output, w.result))
            /\ stdout' = w.stdout
            /\ file' = w.file
            /\ result' = Some(IF w.result.ok THEN Ok(Unit) ELSE Err(w.result.error))
    /\ pc' = "done"
    /\ UNCHANGED << hurl_result, include_headers, color, filename_out, last_entry, call,
                    output, uncompress_calls >>

Next == Navigate \/ RenderHeaders \/ RenderBody \/ Route

Spec == Init /\ [][Next]_vars

-----------------------------------------------------------------------------
(* What the claims speak of, read off the inputs.                           *)

\* the run result has a last entry and that entry has a last call
HasLast ==
    /\ Len(hurl_result.entries) > 0
    /\ Len(hurl_result.entries[Len(hurl_result.entries)].calls) > 0

TheEntry == hurl_result.entries[Len(hurl_result.entries)]

TheResponse == TheEntry.calls[Len(TheEntry.calls)]

\* the file as no write has touched it
FileUntouched == file \in { None, Some(<< 111 >>) }

\* the body the claims expect: decoded when the entry is compressed
ExpectedBody(response, compressed) ==
    IF compressed THEN uncompress_body(response) ELSE Ok(response.body)

\* "<name>: <value>\n" for the headers i..Len(headers), in order
RECURSIVE PlainHeaderLines(_, _)
PlainHeaderLines(headers, i) ==
    IF i > Len(headers) THEN << >>
    ELSE headers[i].name \o << 58, 32 >> \o headers[i].value \o << 10 >>
         \o PlainHeaderLines(headers, i + 1)

\* "<VERSION> <STATUS>\n", the header lines, then the empty line
PlainHeaderBlock(response) ==
    VersionText(response.version) \o << 32 >> \o Decimal(response.status) \o << 10 >>
    \o PlainHeaderLines(response.headers, 1) \o << 10 >>

\* the rendering as a function of the last response, the compressed flag and
\* the two flags alone
RenderingOf(response, compressed, include, colored) ==
    LET b == ExpectedBody(response, compressed)
        h == IF include THEN get_status_line_headers(response, colored) \o << 10 >> ELSE << >>
    IN  IF b.ok THEN Ok(h \o b.value) ELSE Err(b.error)

-----------------------------------------------------------------------------
(* The claims.                                                              *)

\* C1: when the entry sequence is empty or the last entry has no call (even
\* when earlier entries have calls), write_last_body returns Ok at once, calls
\* no write, attempts no decoding and leaves the stream and the file as they
\* were, whatever include_headers, color and the destination are.
C1_NoLastResponseIsSilentSuccess ==
    ~HasLast =>
        /\ pc \in { "navigate", "done" }
        /\ writes = << >>
        /\ stdout = << >>
        /\ FileUntouched
        /\ uncompress_calls = 0
        /\ output = << >>
        /\ (pc = "done" => result = Some(Ok(Unit)))

C1_Witness ==
    /\ pc = "done"
    /\ Len(hurl_result.entries) = 2
    /\ hurl_result.entries[1].calls # << >>
    /\ hurl_result.entries[2].calls = << >>
    /\ include_headers
    /\ filename_out = Some(OutputFile("out.bin"))
    /\ result = Some(Ok(Unit))

\* C2: the bytes handed to the sink, and whether rendering succeeds or fails,
\* are the value of a function of the last call of the last entry, that
\* entry's compressed flag, include_headers and color only: earlier entries,
\* earlier calls and their flags have no part in it.
C2_OutputDependsOnLastCallOnly ==
    (pc = "done" /\ HasLast) =>
        LET r == RenderingOf(TheResponse, TheEntry.compressed, include_headers, color)
        IN  /\ r.ok => (Len(writes) = 1 /\ writes[1].bytes = r.value)
            /\ ~r.ok =>
                  /\ writes = << >>
                  /\ ~result.value.ok
                  /\ result.value.error.from.inner.cause = r.error

C2_Witness ==
    /\ pc = "done"
    /\ Len(hurl_result.entries) = 2
    /\ hurl_result.entries[1].calls = << RespBadGzip >>
    /\ hurl_result.entries[1].compressed
    /\ TheEntry.calls = << RespBadGzip, RespHello >>
    /\ ~TheEntry.compressed
    /\ writes # << >>
    /\ result = Some(Ok(Unit))

\* C3 as stated: with include_headers set and the call successful, the bytes
\* are the plain status line, the plain header lines in order, an empty line
\* and the body, whatever color is.
C3_Original ==
    (pc = "done" /\ HasLast /\ include_headers /\ result = Some(Ok(Unit))) =>
        /\ Len(writes) = 1
        /\ writes[1].bytes =
              PlainHeaderBlock(TheResponse)
              \o ExpectedBody(TheResponse, TheEntry.compressed).value

\* C3 as amended: with include_headers set, color not set and the call
\* successful, the bytes are exactly "<VERSION> <STATUS>\n", one
\* "<name>: <value>\n" per header in insertion order (a repeated name once
\* per occurrence), one "\n", then the body and nothing more.
C3_PlainHeaderBlockThenBody ==
    (pc = "done" /\ HasLast /\ include_headers /\ ~color /\ result = Some(Ok(Unit))) =>
        /\ Len(writes) = 1
        /\ writes[1].bytes =
              PlainHeaderBlock(TheResponse)
              \o ExpectedBody(TheResponse, TheEntry.compressed).value

C3_Witness ==
    /\ pc = "done"
    /\ HasLast
    /\ include_headers
    /\ ~color
    /\ TheResponse = RespHello
    /\ result = Some(Ok(Unit))
    /\ Len(writes) = 1
    /\ stdout = writes[1].bytes

\* C4: with include_headers not set and the call successful, the bytes are
\* the body and nothing else: the decoded body when the last entry is
\* compressed, the stored body otherwise.
C4_BodyOnlyWithoutHeaders ==
    (pc = "done" /\ HasLast /\ ~include_headers /\ result = Some(Ok(Unit))) =>
        /\ Len(writes) = 1
        /\ writes[1].bytes =
              IF TheEntry.compressed THEN uncompress_body(TheResponse).value
              ELSE TheResponse.body

C4_Witness ==
    /\ pc = "done"
    /\ HasLast
    /\ ~include_headers
    /\ color
    /\ TheEntry.compressed
    /\ TheResponse = RespGzip
    /\ result = Some(Ok(Unit))
    /\ writes[1].bytes = << 104, 105 >>

\* C5: when the last entry is not compressed, uncompress_body is never
\* called, no decoding error is returned whatever content-encoding headers
\* the response has, and the bytes handed to the sink end with the stored
\* body, byte for byte, with and without the header block.
C5_UncompressedBodyIsVerbatim ==
    (HasLast /\ ~TheEntry.compressed) =>
        /\ uncompress_calls = 0
        /\ (pc = "done" => Len(writes) = 1)
        /\ (pc = "done" /\ ~result.value.ok => "source_info" \notin DOMAIN result.value.error.from)
        /\ writes # << >> =>
              LET bytes == writes[1].bytes
                  body == TheResponse.body
              IN  /\ Len(bytes) >= Len(body)
                  /\ SubSeq(bytes, Len(bytes) - Len(body) + 1, Len(bytes)) = body
                  /\ (~include_headers => bytes = body)

C5_Witness ==
    /\ pc = "done"
    /\ HasLast
    /\ ~TheEntry.compressed
    /\ TheResponse = RespBadGzip
    /\ include_headers
    /\ result = Some(Ok(Unit))
    /\ Len(writes) = 1

\* C6: when the last entry is compressed, uncompress_body is called exactly
\* once; when it fails, write_last_body returns an error, calls no write, and
\* nothing, not even the header block already rendered, reaches the stream or
\* the file.
C6_FailedDecodingWritesNothing ==
    (HasLast /\ TheEntry.compressed) =>
        /\ (pc \in { "navigate", "headers", "body" } => uncompress_calls = 0)
        /\ (pc \in { "route", "done" } => uncompress_calls = 1)
        /\ (pc \in { "route", "done" } /\ ~uncompress_body(TheResponse).ok) =>
              /\ pc = "done"
              /\ result.some
              /\ ~result.value.ok
              /\ writes = << >>
              /\ stdout = << >>
              /\ FileUntouched

C6_Witness ==
    /\ pc = "done"
    /\ HasLast
    /\ TheEntry.compressed
    /\ include_headers
    /\ output # << >>
    /\ ~uncompress_body(TheResponse).ok
    /\ uncompress_calls = 1
    /\ writes = << >>

\* C7: at most one write is made; it is made only once the header block and
\* the body are rendered, with the whole rendering as its buffer; until then
\* nothing has reached the stream or the file; and when a last response
\* exists and rendering succeeds exactly one write is made, also when the
\* rendering is empty.
C7_OneWriteAfterRendering ==
    /\ Len(writes) <= 1
    /\ (pc # "done" => (writes = << >> /\ stdout = << >> /\ FileUntouched /\ result = None))
    /\ writes # << >> =>
          /\ HasLast
          /\ writes[1].bytes = output
          /\ Ok(output) = RenderingOf(TheResponse, TheEntry.compressed, include_headers, color)
    /\ (pc = "done" /\ HasLast
          /\ RenderingOf(TheResponse, TheEntry.compressed, include_headers, color).ok)
          => Len(writes) = 1

C7_Witness ==
    /\ pc = "done"
    /\ HasLast
    /\ Len(writes) = 1
    /\ writes[1].bytes = << >>
    /\ result = Some(Ok(Unit))

\* C8: the write is called on the supplied destination when there is one and
\* on Output::Stdout when there is none, with the caller's stream passed
\* along; the buffer does not depend on the destination; a write to
\* Output::Stdout, supplied or defaulted, puts the buffer on the stream and
\* leaves the file alone, a write to a file puts it in the file and leaves
\* the stream alone.
C8_WriteGoesToDestination ==
    writes # << >> =>
        LET w == writes[1]
        IN  /\ filename_out.some => w.self = filename_out.value
            /\ ~filename_out.some => w.self = OutputStdout
            /\ w.stdout = "stdout"
            /\ Ok(w.bytes) =
                  RenderingOf(TheResponse, TheEntry.compressed, include_headers, color)
            /\ (w.returned.ok /\ filename_out \in { None, Some(OutputStdout) }) =>
                  (stdout = w.bytes /\ FileUntouched)
            /\ (w.returned.ok /\ filename_out = Some(OutputFile("out.bin"))) =>
                  (file = Some(w.bytes) /\ stdout = << >>)

C8_Witness ==
    /\ pc = "done"
    /\ filename_out = Some(OutputFile("out.bin"))
    /\ Len(writes) = 1
    /\ writes[1].bytes # << >>
    /\ writes[1].returned.ok
    /\ file = Some(writes[1].bytes)

\* C9: when the write fails, write_last_body returns that very error and
\* writes nothing more; when the write succeeds, it returns Ok.
C9_WriteErrorIsReturned ==
    writes # << >> =>
        /\ Len(writes) = 1
        /\ pc = "done"
        /\ writes[1].returned.ok => result = Some(Ok(Unit))
        /\ ~writes[1].returned.ok =>
              /\ result = Some(Err(writes[1].returned.error))
              /\ stdout = << >>
              /\ FileUntouched

C9_Witness ==
    /\ pc = "done"
    /\ Len(writes) = 1
    /\ ~writes[1].returned.ok
    /\ writes[1].bytes # << >>
    /\ ~result.value.ok

\* C10: the error returned when decoding fails is the runner error made of
\* the decoding error, with the source position (0,0)-(0,0) whatever position
\* the last entry records, and with its flag false, converted to the error of
\* the output module; the path returns no other error.
C10_DecodingErrorShape ==
    (pc = "done" /\ HasLast /\ TheEntry.compressed /\ ~uncompress_body(TheResponse).ok) =>
        result =
            Some(Err([type |-> "output::Error",
                      from |-> [source_info |-> [start |-> [line |-> 0, column |-> 0],
                                                 end |-> [line |-> 0, column |-> 0]],
                                inner |-> [kind |-> "Http",
                                           cause |-> uncompress_body(TheResponse).error],
                                assert |-> FALSE]]))

C10_Witness ==
    /\ pc = "done"
    /\ HasLast
    /\ TheEntry.compressed
    /\ TheResponse = RespUnknownEncoding
    /\ TheEntry.source_info.start.line > 0
    /\ result.some
    /\ ~result.value.ok

=============================================================================
